---- MODULE Spec2Model ----
(***************************************************************************)
(* Model of locations/saham_bank_ma.py (SahamBankMASpider).                *)
(*                                                                         *)
(* Text is a sequence of characters.  A character is a one-character       *)
(* string, except for three words that the source treats as units and that *)
(* are kept atomic here: "SahamBank" (a match of saham\s*bank), "Agence"   *)
(* (a match of agence) and "None" (the text Python prints for None).       *)
(*                                                                         *)
(* A JSON value is a record [t, keys, kids, s]: t is "null", "str", "list" *)
(* or "dict"; a dict keeps its keys in insertion order.  A Python value    *)
(* held by an item is a record [t, s, m, e]: t is "unset" (key absent),    *)
(* "none", "str" or "float"; a float is sign s, mantissa m, e decimals.    *)
(*                                                                         *)
(* A script block is given by what the patterns of parse_locator capture   *)
(* in it: the captures of the four SSR patterns, in the order the loops    *)
(* meet them, and the captures of the array heuristic.  Of the fields of   *)
(* an item the model keeps ref, name, branch, city, lat and lon; the       *)
(* address and contact fields (lines 166-178) are fallback chains of their *)
(* own that no other line reads, and apply_category only tags the item.    *)
(***************************************************************************)
EXTENDS Integers, Sequences, FiniteSets, TLC

VARIABLES
    apiEndpoint,   \* API_ENDPOINT is set (a spider argument or an edit of line 19)
    apiBody,       \* text of the API response
    page,          \* script blocks of the locator page, in document order
    pending,       \* requests issued and not yet given to their callback
    started,       \* start_requests has run
    phase,         \* parse_locator: "idle", "scan", "emit", "done", "raised"
    scripts,       \* parse_locator: the list scanned (line 58-61)
    si,            \* parse_locator: index of the next script block
    locations,     \* parse_locator: raw records collected so far
    li,            \* parse_locator: index of the next raw record
    seen,          \* parse_locator: its local set of keys
    processed,     \* parse_locator: per raw record handled, [item, out]
    emitted,       \* every item yielded in this crawl, [src, at, item]
    raised,        \* callbacks an exception escaped from
    nraw,          \* normalizer run: the raw dictionary
    nout,          \* normalizer run: result of _dict_to_item
    ndone,         \* normalizer run: finished
    wblob,         \* walker run: the blob
    wfound,        \* walker run: result of _extract_locations_from_blob
    wdone          \* walker run: finished

vars == <<apiEndpoint, apiBody, page, pending, started, phase, scripts, si,
          locations, li, seen, processed, emitted, raised, nraw, nout, ndone, wblob,
          wfound, wdone>>

crawlVars == <<apiEndpoint, apiBody, page, pending, started, phase, scripts, si,
               locations, li, seen, processed, emitted, raised>>

normVars == <<nraw, nout, ndone>>

walkVars == <<wblob, wfound, wdone>>

----------------------------------------------------------------------------
\* Bounds of the model.

\* longest coordinate string drawn for the normalizer
MaxLen == 4

\* most script blocks on the locator page
MaxScripts == 2

\* deepest nesting of the blobs drawn for the walker
MaxDepth == 3

----------------------------------------------------------------------------
\* Text.

Whitespace == {" "}

Digits == {"0", "1", "2", "3", "4", "5", "6", "7", "8", "9"}

DigitVal(c) == CASE c = "0" -> 0 [] c = "1" -> 1 [] c = "2" -> 2 [] c = "3" -> 3
                 [] c = "4" -> 4 [] c = "5" -> 5 [] c = "6" -> 6 [] c = "7" -> 7
                 [] c = "8" -> 8 [] c = "9" -> 9

DigitChar(d) == CASE d = 0 -> "0" [] d = 1 -> "1" [] d = 2 -> "2" [] d = 3 -> "3"
                  [] d = 4 -> "4" [] d = 5 -> "5" [] d = 6 -> "6" [] d = 7 -> "7"
                  [] d = 8 -> "8" [] d = 9 -> "9"

\* characters \w matches
WordChars == Digits \cup {"x", "y", "a", "b", "Agence", "SahamBank", "None"}

RECURSIVE LStrip(_, _)
LStrip(s, cs) == IF s # <<>> /\ Head(s) \in cs THEN LStrip(Tail(s), cs) ELSE s

RECURSIVE RStrip(_, _)
RStrip(s, cs) == IF s # <<>> /\ s[Len(s)] \in cs
                 THEN RStrip(SubSeq(s, 1, Len(s) - 1), cs) ELSE s

\* str.strip(chars)
Strip(s, cs) == RStrip(LStrip(s, cs), cs)

\* str.replace(a, b) for one-character a and b
Replace(s, a, b) == [i \in 1..Len(s) |-> IF s[i] = a THEN b ELSE s[i]]

\* number of characters of cs in a row from position i of s
RECURSIVE Span(_, _, _)
Span(s, i, cs) == IF i <= Len(s) /\ s[i] \in cs THEN 1 + Span(s, i + 1, cs) ELSE 0

RECURSIVE Pow10(_)
Pow10(k) == IF k = 0 THEN 1 ELSE 10 * Pow10(k - 1)

----------------------------------------------------------------------------
\* Python values.

None == [t |-> "none", s |-> <<>>, m |-> 0, e |-> 0]

Unset == [t |-> "unset", s |-> <<>>, m |-> 0, e |-> 0]

PStr(s) == [t |-> "str", s |-> s, m |-> 0, e |-> 0]

PFloat(neg, m, e) == [t |-> "float", s |-> IF neg THEN <<"-">> ELSE <<>>, m |-> m, e |-> e]

\* bool(v)
Truthy(v) == \/ v.t = "str" /\ v.s # <<>>
             \/ v.t = "float" /\ v.m # 0

\* a or b
Or(a, b) == IF Truthy(a) THEN a ELSE b

\* JSON values
JNull == [t |-> "null", keys |-> <<>>, kids |-> <<>>, s |-> <<>>]

JStr(s) == [t |-> "str", keys |-> <<>>, kids |-> <<>>, s |-> s]

JList(kids) == [t |-> "list", keys |-> <<>>, kids |-> kids, s |-> <<>>]

JDict(keys, kids) == [t |-> "dict", keys |-> keys, kids |-> kids, s |-> <<>>]

\* the Python value json.loads gives for a JSON scalar
Py(j) == IF j.t = "str" THEN PStr(j.s) ELSE None

\* raw.get(k) for a dict raw
Get(raw, k) == IF \E i \in 1..Len(raw.keys) : raw.keys[i] = k
               THEN Py(raw.kids[CHOOSE i \in 1..Len(raw.keys) : raw.keys[i] = k])
               ELSE None

\* item.get(k): None when the key is absent
ItemGet(v) == IF v.t = "unset" THEN None ELSE v

\* item.get(k, d): d only when the key is absent
ItemGetDefault(v, d) == IF v.t = "unset" THEN d ELSE v

----------------------------------------------------------------------------
\* float(s) and str(v).

IsFloatText(b) == /\ \A i \in 1..Len(b) : b[i] \in Digits \cup {"."}
                  /\ Cardinality({i \in 1..Len(b) : b[i] = "."}) <= 1
                  /\ \E i \in 1..Len(b) : b[i] \in Digits

\* value of the digits of b, its point skipped
RECURSIVE Mantissa(_, _)
Mantissa(b, acc) == IF b = <<>> THEN acc
                    ELSE IF Head(b) = "." THEN Mantissa(Tail(b), acc)
                    ELSE Mantissa(Tail(b), 10 * acc + DigitVal(Head(b)))

Decimals(b) == IF \E i \in 1..Len(b) : b[i] = "."
               THEN Len(b) - (CHOOSE i \in 1..Len(b) : b[i] = ".")
               ELSE 0

\* a float keeps no trailing zero decimals
RECURSIVE Canon(_, _, _)
Canon(neg, m, e) == IF e > 0 /\ m % 10 = 0 THEN Canon(neg, m \div 10, e - 1)
                        ELSE PFloat(neg, m, e)

\* float(s) for a str s: [ok, v]; ok = FALSE is ValueError
ParseFloat(s) ==
    LET t == Strip(s, Whitespace)
        neg == t # <<>> /\ Head(t) = "-"
        b == IF neg THEN Tail(t) ELSE t
    IN  IF IsFloatText(b)
        THEN [ok |-> TRUE, v |-> Canon(neg, Mantissa(b, 0), Decimals(b))]
        ELSE [ok |-> FALSE, v |-> None]

RECURSIVE DigitsOf(_)
DigitsOf(n) == IF n < 10 THEN <<DigitChar(n)>>
               ELSE Append(DigitsOf(n \div 10), DigitChar(n % 10))

RECURSIVE Zeros(_)
Zeros(k) == IF k <= 0 THEN <<>> ELSE <<"0">> \o Zeros(k - 1)

\* repr of a float: the integer part, a point, the decimals (at least one)
FloatText(v) ==
    LET ip == v.m \div Pow10(v.e)
        fp == v.m % Pow10(v.e)
        fd == IF v.e = 0 THEN <<"0">>
              ELSE Zeros(v.e - Len(DigitsOf(fp))) \o DigitsOf(fp)
    IN  v.s \o DigitsOf(ip) \o <<".">> \o fd

\* str(v), also what an f-string prints
Str(v) == CASE v.t = "str" -> v.s
            [] v.t = "float" -> FloatText(v)
            [] OTHER -> <<"None">>

----------------------------------------------------------------------------
\* Name clean-up (lines 160-161).

\* the characters of the class [-...:] that this alphabet has
Separators == {"-", ":"}

\* \b before a word character at position i
BoundaryBefore(s, i) == i = 1 \/ s[i - 1] \notin WordChars

\* length of a match of \b(saham\s*bank)\b\s*[-:]\s* at position i, 0 for none
BrandMatchLen(s, i) ==
    IF s[i] = "SahamBank" /\ BoundaryBefore(s, i)
    THEN LET a == Span(s, i + 1, Whitespace)
             j == i + 1 + a
         IN  IF j <= Len(s) /\ s[j] \in Separators
             THEN 2 + a + Span(s, j + 1, Whitespace)
             ELSE 0
    ELSE 0

\* length of a match of \bagence\s+ at position i, 0 for none
AgenceMatchLen(s, i) ==
    IF s[i] = "Agence" /\ BoundaryBefore(s, i) /\ Span(s, i + 1, Whitespace) >= 1
    THEN 1 + Span(s, i + 1, Whitespace)
    ELSE 0

RECURSIVE SubBrand(_, _)
SubBrand(s, i) == IF i > Len(s) THEN <<>>
                  ELSE IF BrandMatchLen(s, i) > 0 THEN SubBrand(s, i + BrandMatchLen(s, i))
                  ELSE <<s[i]>> \o SubBrand(s, i + 1)

RECURSIVE SubAgence(_, _)
SubAgence(s, i) == IF i > Len(s) THEN <<>>
                   ELSE IF AgenceMatchLen(s, i) > 0 THEN SubAgence(s, i + AgenceMatchLen(s, i))
                   ELSE <<s[i]>> \o SubAgence(s, i + 1)

CleanName(s) == Strip(SubAgence(Strip(SubBrand(s, 1), Whitespace), 1), Whitespace)

----------------------------------------------------------------------------
\* The normalizer, _dict_to_item.

\* DictParser.parse: each field is the first non-empty value among its key
\* spellings, None when there is none; branch is not set by it.
DictParserParse(raw) ==
    [ref    |-> Or(Or(Or(Get(raw, "ref"), Get(raw, "id")), Get(raw, "slug")), None),
     name   |-> Or(Or(Get(raw, "name"), Get(raw, "title")), None),
     branch |-> Unset,
     city   |-> Or(Get(raw, "city"), None),
     lat    |-> Or(Or(Or(Get(raw, "latitude"), Get(raw, "Latitude")), Get(raw, "lat")), None),
     lon    |-> Or(Or(Or(Or(Get(raw, "longitude"), Get(raw, "Longitude")),
                         Get(raw, "lon")), Get(raw, "lng")), None)]

\* line 148
RawLat(raw) == Or(Or(Get(raw, "lat"), Get(raw, "latitude")), Get(raw, "Latitude"))

\* line 149
RawLon(raw) == Or(Or(Or(Get(raw, "lng"), Get(raw, "lon")), Get(raw, "longitude")),
                  Get(raw, "Longitude"))

\* CommaToDot with the replacement left out
CommaToDotNoop(v) == v

\* lines 150-153: a str has its commas replaced by points
CommaToDot(v) == IF v.t = "str" THEN PStr(Replace(v.s, ",", ".")) ELSE v

\* float(v)
ToFloat(v) == IF v.t = "str" THEN ParseFloat(v.s)
              ELSE IF v.t = "float" THEN [ok |-> TRUE, v |-> v]
              ELSE [ok |-> FALSE, v |-> None]

\* lines 157-163
NameStep(item, raw) ==
    LET name == Or(Or(Or(ItemGet(item.name), Get(raw, "name")), Get(raw, "nom")),
                   Get(raw, "title"))
    IN  IF Truthy(name)
        THEN [item EXCEPT !.branch = PStr(CleanName(name.s)), !.name = Unset]
        ELSE item

\* line 172
CityStep(item, raw) ==
    [item EXCEPT !.city = Or(Or(ItemGet(item.city), Get(raw, "city")), Get(raw, "ville"))]

\* lines 181-186: the two assignments share one try block
GeoStep(item, lat, lon) ==
    IF Truthy(lat) /\ Truthy(lon)
    THEN IF ~ToFloat(lat).ok THEN item
         ELSE IF ~ToFloat(lon).ok THEN [item EXCEPT !.lat = ToFloat(lat).v]
         ELSE [item EXCEPT !.lat = ToFloat(lat).v, !.lon = ToFloat(lon).v]
    ELSE item

\* line 194: f"{item.get('city','')}-{item.get('branch','')}".strip("-")
Slug(item) ==
    PStr(Strip(Str(ItemGetDefault(item.city, PStr(<<>>))) \o <<"-">>
               \o Str(ItemGetDefault(item.branch, PStr(<<>>))), {"-"}))

\* lines 189-195
RefStep(item, raw) ==
    [item EXCEPT !.ref = Or(Or(Or(Or(Get(raw, "id"), Get(raw, "ref")), Get(raw, "code")),
                               Get(raw, "slug")), Slug(item))]

\* _dict_to_item: ok = FALSE is the AttributeError of raw.get on a raw that is no
\* mapping (line 148)
DictToItem(raw) ==
    IF raw.t # "dict" THEN [ok |-> FALSE, item |-> DictParserParse(JDict(<<>>, <<>>))]
    ELSE [ok |-> TRUE,
          item |-> RefStep(GeoStep(CityStep(NameStep(DictParserParse(raw), raw), raw),
                                   CommaToDot(RawLat(raw)), CommaToDot(RawLon(raw))),
                           raw)]

----------------------------------------------------------------------------
\* The blob walker, _extract_locations_from_blob.

\* str.lower() on the keys this model uses
Lower(k) == CASE k = "Name" -> "name"
              [] k = "LAT" -> "lat"
              [] k = "Ville" -> "ville"
              [] k = "Latitude" -> "latitude"
              [] k = "Longitude" -> "longitude"
              [] OTHER -> k

\* LooksLikeLocations with the keys compared as spelled, not lower-cased
LooksLikeLocationsCaseSensitive(node) ==
    /\ node.t = "list"
    /\ node.kids # <<>>
    /\ node.kids[1].t = "dict"
    /\ LET sample == node.kids[1]
           keys == {sample.keys[i] : i \in 1..Len(sample.keys)}
       IN  \/ {"name", "lat", "lng"} \subseteq keys
           \/ {"nom", "latitude", "longitude"} \subseteq keys
           \/ {"title", "coordinates"} \subseteq keys
           \/ {"adresse", "ville"} \subseteq keys

\* lines 125-134: node is an array to collect
LooksLikeLocations(node) ==
    /\ node.t = "list"
    /\ node.kids # <<>>
    /\ node.kids[1].t = "dict"
    /\ LET sample == node.kids[1]
           keys == {Lower(sample.keys[i]) : i \in 1..Len(sample.keys)}
       IN  \/ {"name", "lat", "lng"} \subseteq keys
           \/ {"nom", "latitude", "longitude"} \subseteq keys
           \/ {"title", "coordinates"} \subseteq keys
           \/ {"adresse", "ville"} \subseteq keys

RECURSIVE Walk(_, _)
RECURSIVE WalkAll(_, _, _)
\* lines 136-141: walk every value of a dict, every element of a list
WalkAll(kids, i, found) == IF i > Len(kids) THEN found
                           ELSE WalkAll(kids, i + 1, Walk(kids[i], found))

\* walk (lines 124-141): found after walking node
Walk(node, found) ==
    LET f == IF LooksLikeLocations(node) THEN found \o node.kids ELSE found
    IN  IF node.t \in {"dict", "list"} THEN WalkAll(node.kids, 1, f) ELSE f

ExtractLocationsFromBlob(blob) == Walk(blob, <<>>)

----------------------------------------------------------------------------
\* Captured text and json.loads.  A text is a sequence of characters in which
\* a well-formed JSON document is one atomic word, named "doc..."; anything
\* else ("{x", ";", "</script>") is no JSON.

RecA == JDict(<<"id", "name", "city", "lat", "lng">>,
              <<JStr(<<"a">>), JStr(<<"Agence", " ", "x">>), JStr(<<"y">>),
                JStr(<<"1", ",", "5">>), JStr(<<"2">>)>>)

RecA2 == JDict(<<"id", "name", "city", "lat", "lng">>,
               <<JStr(<<"a">>), JStr(<<"x">>), JStr(<<"y">>), JStr(<<"1">>), JStr(<<"3">>)>>)

RecB == JDict(<<"nom", "ville", "adresse">>,
              <<JStr(<<"b">>), JStr(<<"y">>), JStr(<<"x">>)>>)

RecD1 == JDict(<<"name", "city", "lat", "lng">>,
               <<JStr(<<"-">>), JStr(<<"-">>), JStr(<<"1">>), JStr(<<"2">>)>>)

RecD2 == JDict(<<"name", "city", "lat", "lng">>,
               <<JStr(<<"-">>), JStr(<<"-">>), JStr(<<"1">>), JStr(<<"3">>)>>)

RecD3 == JDict(<<"name", "ville", "latitude", "longitude">>,
               <<JStr(<<"Agence", " ", "-">>), JStr(<<"-">>), JStr(<<"1">>), JStr(<<"2">>)>>)

RecD4 == JDict(<<"name", "city", "lat", "lng">>,
               <<JStr(<<"-", "-">>), JStr(<<"-">>), JStr(<<"1">>), JStr(<<"2">>)>>)

RecD5 == JDict(<<"name", "city", "lat", "lng">>,
               <<JStr(<<"-">>), JStr(<<"-">>), JStr(<<"3">>), JStr(<<"2">>)>>)

DocNames == {"docN", "docH", "docD", "docX", "docApi", "docS"}

DocValue(d) ==
    CASE d = "docN" -> JDict(<<"state">>, <<JDict(<<"data">>, <<JList(<<RecA, RecB>>)>>)>>)
      [] d = "docH" -> JList(<<RecA, RecD1>>)
      [] d = "docD" -> JList(<<RecD1, RecD2, RecD3, RecD4, RecD5, RecA2>>)
      [] d = "docX" -> JList(<<RecB, JStr(<<"x">>), RecA>>)
      [] d = "docApi" -> JDict(<<"total", "agences">>, <<JStr(<<"2">>), JList(<<RecA2, RecB>>)>>)
      [] OTHER -> JStr(<<"x">>)

\* _json_sanitize (lines 111-116)
JsonSanitize(text) ==
    LET a == RStrip(Strip(text, Whitespace), {";"})
        b == Strip(a, Whitespace)
    IN  IF b # <<>> /\ b[Len(b)] = "</script>" THEN SubSeq(b, 1, Len(b) - 1) ELSE b

\* json.loads: [ok, v]; ok = FALSE is JSONDecodeError
JsonLoads(text) ==
    LET b == Strip(text, Whitespace)
    IN  IF Len(b) = 1 /\ b[1] \in DocNames
        THEN [ok |-> TRUE, v |-> DocValue(b[1])]
        ELSE [ok |-> FALSE, v |-> JNull]

HasKey(node, k) == \E i \in 1..Len(node.keys) : node.keys[i] = k

JGet(node, k) == node.kids[CHOOSE i \in 1..Len(node.keys) : node.keys[i] = k]

----------------------------------------------------------------------------
\* parse_locator, scan stage (lines 64-89).  r is [raised, locs].

\* ScanSsr without its try/except: a text that is no JSON raises
ScanSsrNoTry(text, r) ==
    IF r.raised THEN r
    ELSE IF JsonLoads(JsonSanitize(text)).ok
         THEN [r EXCEPT !.locs = @ \o ExtractLocationsFromBlob(JsonLoads(JsonSanitize(text)).v)]
         ELSE [r EXCEPT !.raised = TRUE]

\* lines 73-77: one match of an SSR pattern
ScanSsr(text, r) ==
    IF r.raised THEN r
    ELSE IF JsonLoads(JsonSanitize(text)).ok
         THEN [r EXCEPT !.locs = @ \o ExtractLocationsFromBlob(JsonLoads(JsonSanitize(text)).v)]
         ELSE r

\* lines 82-86
LooksLikeAgencies(arr) ==
    /\ arr.t = "list"
    /\ arr.kids # <<>>
    /\ arr.kids[1].t = "dict"
    /\ \E k \in {"name", "nom", "title"} : HasKey(arr.kids[1], k)
    /\ \E k \in {"city", "ville", "locality"} : HasKey(arr.kids[1], k)

\* lines 80-89: one match of the array heuristic
ScanHeur(text, r) ==
    IF r.raised THEN r
    ELSE IF JsonLoads(JsonSanitize(text)).ok /\ LooksLikeAgencies(JsonLoads(JsonSanitize(text)).v)
         THEN [r EXCEPT !.locs = @ \o JsonLoads(JsonSanitize(text)).v.kids]
         ELSE r

RECURSIVE ScanSsrAll(_, _, _)
ScanSsrAll(texts, i, r) == IF i > Len(texts) THEN r
                           ELSE ScanSsrAll(texts, i + 1, ScanSsr(texts[i], r))

RECURSIVE ScanHeurAll(_, _, _)
ScanHeurAll(texts, i, r) == IF i > Len(texts) THEN r
                            ELSE ScanHeurAll(texts, i + 1, ScanHeur(texts[i], r))

\* one pass of the loop of line 64 over script block s
ScanBlock(s, r) == ScanHeurAll(s.heur, 1, ScanSsrAll(s.ssr, 1, r))

RECURSIVE SelectJson(_)
\* the script blocks of type application/json or application/ld+json
SelectJson(blocks) == IF blocks = <<>> THEN <<>>
                      ELSE (IF Head(blocks).json THEN <<Head(blocks)>> ELSE <<>>)
                           \o SelectJson(Tail(blocks))

\* lines 58-61
ScriptList(blocks) == SelectJson(blocks) \o blocks

\* DedupKey that never uses the ref
DedupKeyIgnoresRef(item) ==
    [kind |-> "tuple", a |-> Str(ItemGet(item.lat)), b |-> Str(ItemGet(item.lon)),
     c |-> Or(ItemGet(item.name), ItemGet(item.branch))]

\* DedupKey whose tuple leaves the longitude out
DedupKeyNoLon(item) ==
    IF Truthy(ItemGet(item.ref))
    THEN [kind |-> "ref", a |-> Str(item.ref), b |-> <<>>, c |-> None]
    ELSE [kind |-> "tuple", a |-> Str(ItemGet(item.lat)), b |-> <<>>,
          c |-> Or(ItemGet(item.name), ItemGet(item.branch))]

\* lines 97-104
DedupKey(item) ==
    IF Truthy(ItemGet(item.ref))
    THEN [kind |-> "ref", a |-> Str(item.ref), b |-> <<>>, c |-> None]
    ELSE [kind |-> "tuple", a |-> Str(ItemGet(item.lat)), b |-> Str(ItemGet(item.lon)),
          c |-> Or(ItemGet(item.name), ItemGet(item.branch))]

----------------------------------------------------------------------------
\* parse_api (lines 36-51).

ApiKeys == <<"locations", "agences", "agencies", "items", "branches", "pois">>

RECURSIVE FirstListKey(_, _)
\* lines 42-45
FirstListKey(data, i) ==
    IF i > Len(ApiKeys) THEN <<>>
    ELSE IF HasKey(data, ApiKeys[i]) /\ JGet(data, ApiKeys[i]).t = "list"
         THEN JGet(data, ApiKeys[i]).kids
         ELSE FirstListKey(data, i + 1)

\* lines 40-47
ApiCandidates(data) == IF data.t = "dict" THEN FirstListKey(data, 1)
                       ELSE IF data.t = "list" THEN data.kids
                       ELSE <<>>

RECURSIVE ApiYield(_, _, _)
\* lines 48-51: the items yielded, until _dict_to_item raises
ApiYield(cands, i, r) ==
    IF i > Len(cands) THEN r
    ELSE IF ~DictToItem(cands[i]).ok THEN [r EXCEPT !.raised = TRUE]
    ELSE ApiYield(cands, i + 1,
                  [r EXCEPT !.items = Append(@, [src |-> "api", at |-> i,
                                                 item |-> DictToItem(cands[i]).item])])

\* the whole of parse_api on a response body; response.json() raises on a body
\* that is no JSON
ApiRun(body) ==
    IF ~JsonLoads(body).ok THEN [raised |-> TRUE, items |-> <<>>]
    ELSE ApiYield(ApiCandidates(JsonLoads(body).v), 1, [raised |-> FALSE, items |-> <<>>])

----------------------------------------------------------------------------
\* The crawl: start_requests, parse_api, parse_locator.

Bad == <<"{x">>

Block(json, ssr, heur) == [json |-> json, ssr |-> ssr, heur |-> heur]

\* script blocks by what the patterns of lines 66-79 capture in them
BlockKinds ==
    { Block(FALSE, <<Bad, <<"docN">>>>, <<<<"docH">>>>),
      Block(TRUE, <<>>, <<<<"docD">>>>),
      Block(FALSE, <<>>, <<<<"docX">>>>),
      Block(TRUE, <<Bad>>, <<Bad>>),
      Block(FALSE, <<<<"docS">>, <<"docN">>>>, <<<<"docS">>>>) }

RECURSIVE SeqsUpTo(_, _)
\* the sequences over S of length at most n
SeqsUpTo(S, n) == IF n = 0 THEN {<<>>}
                  ELSE SeqsUpTo(S, n - 1)
                       \cup {Append(q, x) : q \in {y \in SeqsUpTo(S, n - 1) : Len(y) = n - 1},
                                            x \in S}

Pages == SeqsUpTo(BlockKinds, MaxScripts)

ApiBodies == {<<"docApi">>, <<"docH">>, <<"docX">>, Bad}

NormIdle == /\ nraw = JNull
            /\ nout = [ok |-> FALSE, item |-> DictParserParse(JDict(<<>>, <<>>))]
            /\ ndone = TRUE

WalkIdle == /\ wblob = JNull
            /\ wfound = <<>>
            /\ wdone = TRUE

CrawlIdle == /\ apiEndpoint = FALSE
             /\ apiBody = Bad
             /\ page = <<>>
             /\ pending = {}
             /\ started = TRUE
             /\ phase = "done"
             /\ scripts = <<>>
             /\ si = 1
             /\ locations = <<>>
             /\ li = 1
             /\ seen = {}
             /\ processed = <<>>
             /\ emitted = <<>>
             /\ raised = {}

Init == /\ apiEndpoint \in BOOLEAN
        /\ apiBody \in (IF apiEndpoint THEN ApiBodies ELSE {Bad})
        /\ page \in Pages
        /\ pending = {}
        /\ started = FALSE
        /\ phase = "idle"
        /\ scripts = <<>>
        /\ si = 1
        /\ locations = <<>>
        /\ li = 1
        /\ seen = {}
        /\ processed = <<>>
        /\ emitted = <<>>
        /\ raised = {}
        /\ NormIdle
        /\ WalkIdle

\* lines 29-33
StartRequests ==
    /\ ~started
    /\ started' = TRUE
    /\ pending' = (IF apiEndpoint THEN {"api"} ELSE {}) \cup {"locator"}
    /\ UNCHANGED <<apiEndpoint, apiBody, page, phase, scripts, si, locations, li, seen,
                   processed, emitted, raised, normVars, walkVars>>

\* lines 36-51, the whole callback; every item is true at line 50
ParseApi ==
    /\ "api" \in pending
    /\ pending' = pending \ {"api"}
    /\ emitted' = emitted \o ApiRun(apiBody).items
    /\ raised' = IF ApiRun(apiBody).raised THEN raised \cup {"api"} ELSE raised
    /\ UNCHANGED <<apiEndpoint, apiBody, page, started, phase, scripts, si, locations, li,
                   seen, processed, normVars, walkVars>>

\* lines 58-63
ParseLocatorBegin ==
    /\ "locator" \in pending
    /\ phase = "idle"
    /\ pending' = pending \ {"locator"}
    /\ scripts' = ScriptList(page)
    /\ locations' = <<>>
    /\ si' = 1
    /\ phase' = "scan"
    /\ UNCHANGED <<apiEndpoint, apiBody, page, started, li, seen, processed, emitted,
                   raised, normVars, walkVars>>

\* lines 64-89, one script block
ScanScript ==
    /\ phase = "scan"
    /\ si <= Len(scripts)
    /\ LET r == ScanBlock(scripts[si], [raised |-> FALSE, locs |-> locations])
       IN  IF r.raised
           THEN /\ phase' = "raised"
                /\ raised' = raised \cup {"locator"}
                /\ UNCHANGED <<si, locations>>
           ELSE /\ locations' = r.locs
                /\ si' = si + 1
                /\ UNCHANGED <<phase, raised>>
    /\ UNCHANGED <<apiEndpoint, apiBody, page, pending, started, scripts, li, seen,
                   processed, emitted, normVars, walkVars>>

\* line 91
BeginEmit ==
    /\ phase = "scan"
    /\ si > Len(scripts)
    /\ seen' = {}
    /\ li' = 1
    /\ phase' = "emit"
    /\ UNCHANGED <<apiEndpoint, apiBody, page, pending, started, scripts, si, locations,
                   processed, emitted, raised, normVars, walkVars>>

\* lines 92-108, one raw record; an item has fields set, so "not item" (line 94)
\* is false
EmitRecord ==
    /\ phase = "emit"
    /\ li <= Len(locations)
    /\ LET r == DictToItem(locations[li])
           key == DedupKey(r.item)
       IN  IF ~r.ok
           THEN /\ phase' = "raised"
                /\ raised' = raised \cup {"locator"}
                /\ UNCHANGED <<li, seen, processed, emitted>>
           ELSE IF key \in seen
           THEN /\ li' = li + 1
                /\ processed' = Append(processed, [item |-> r.item, out |-> "dropped"])
                /\ UNCHANGED <<phase, raised, seen, emitted>>
           ELSE /\ li' = li + 1
                /\ seen' = seen \cup {key}
                /\ processed' = Append(processed, [item |-> r.item, out |-> "emitted"])
                /\ emitted' = Append(emitted, [src |-> "locator", at |-> li, item |-> r.item])
                /\ UNCHANGED <<phase, raised>>
    /\ UNCHANGED <<apiEndpoint, apiBody, page, pending, started, scripts, si, locations,
                   normVars, walkVars>>

\* the loop of line 92 is exhausted
FinishLocator ==
    /\ phase = "emit"
    /\ li > Len(locations)
    /\ phase' = "done"
    /\ UNCHANGED <<apiEndpoint, apiBody, page, pending, started, scripts, si, locations, li,
                   seen, processed, emitted, raised, normVars, walkVars>>

Next == \/ StartRequests
        \/ ParseApi
        \/ ParseLocatorBegin
        \/ ScanScript
        \/ BeginEmit
        \/ EmitRecord
        \/ FinishLocator

Spec == Init /\ [][Next]_vars

----------------------------------------------------------------------------
\* Runs of the normalizer alone: _dict_to_item on one raw dictionary.

CoordAlphabet == {"-", ",", ".", "0", "1"}

CoordStrings == SeqsUpTo(CoordAlphabet, MaxLen)

FewCoords == {<<"2">>, <<"0", ",", "5">>, <<"x">>, <<>>}

CoordRaws ==
    {JDict(<<kl, kg>>, <<JStr(c[1]), JStr(c[2])>>) :
        kl \in {"lat", "latitude"}, kg \in {"lng", "longitude"},
        c \in (CoordStrings \X FewCoords) \cup (FewCoords \X CoordStrings)}

NoField == [keys |-> <<>>, kids |-> <<>>]

Field(k, s) == [keys |-> <<k>>, kids |-> <<JStr(s)>>]

IdFields == {NoField, Field("id", <<>>), Field("id", <<"a">>), Field("slug", <<"a">>)}

Names == {<<"x">>, <<"Agence", " ", "x">>, <<"-">>, <<"Agence", " ">>,
          <<"SahamBank", " ", "-", " ", "Agence", " ", "x">>}

NameFields == {NoField} \cup {Field(k, n) : k \in {"name", "nom", "title"}, n \in Names}

CityFields == {NoField}
              \cup {Field(k, c) : k \in {"city", "ville"},
                                  c \in {<<"y">>, <<"-">>, <<>>, <<"y", "-">>}}

GeoFields == {NoField,
              [keys |-> <<"lat", "lng">>, kids |-> <<JStr(<<"1", ",", "5">>), JStr(<<"2">>)>>],
              [keys |-> <<"lat", "lng">>, kids |-> <<JStr(<<"1">>), JStr(<<"x">>)>>]}

IdentRaws ==
    {JDict(i.keys \o n.keys \o c.keys \o g.keys, i.kids \o n.kids \o c.kids \o g.kids) :
        i \in IdFields, n \in NameFields, c \in CityFields, g \in GeoFields}

NormInputs == CoordRaws \cup IdentRaws

InitNorm == /\ nraw \in NormInputs
            /\ nout = [ok |-> FALSE, item |-> DictParserParse(JDict(<<>>, <<>>))]
            /\ ndone = FALSE
            /\ CrawlIdle
            /\ WalkIdle

\* lines 146-200
DictToItemRun ==
    /\ ~ndone
    /\ nout' = DictToItem(nraw)
    /\ ndone' = TRUE
    /\ UNCHANGED <<nraw, crawlVars, walkVars>>

NextNorm == DictToItemRun

SpecNorm == InitNorm /\ [][NextNorm]_vars

----------------------------------------------------------------------------
\* Runs of the walker alone: _extract_locations_from_blob on one blob.

Leaf == JStr(<<"x">>)

DictK1 == JDict(<<"Name", "LAT", "lng">>, <<Leaf, Leaf, Leaf>>)

DictK2 == JDict(<<"adresse", "ville">>, <<Leaf, JStr(<<"y">>)>>)

DictK3 == JDict(<<"name", "lat">>, <<Leaf, Leaf>>)

\* what stands beside a subtree in a two-element array
Siblings == {DictK1, JList(<<DictK2>>)}

RECURSIVE Trees(_)
\* the blobs nested at most d deep
Trees(d) ==
    IF d = 0 THEN {Leaf, DictK1, DictK2, DictK3}
    ELSE LET T == Trees(d - 1)
         IN  T \cup {JList(<<>>)}
               \cup {JList(<<a>>) : a \in T}
               \cup {JList(<<a, b>>) : a \in T, b \in Siblings}
               \cup {JList(<<b, a>>) : a \in T, b \in Siblings}
               \cup {JDict(<<"data">>, <<a>>) : a \in T}
               \cup {JDict(<<"title", "coordinates">>, <<Leaf, a>>) : a \in T}

InitWalk == /\ wblob \in Trees(MaxDepth)
            /\ wfound = <<>>
            /\ wdone = FALSE
            /\ CrawlIdle
            /\ NormIdle

\* lines 118-144
ExtractRun ==
    /\ ~wdone
    /\ wfound' = ExtractLocationsFromBlob(wblob)
    /\ wdone' = TRUE
    /\ UNCHANGED <<wblob, crawlVars, normVars>>

NextWalk == ExtractRun

SpecWalk == InitWalk /\ [][NextWalk]_vars

----------------------------------------------------------------------------
\* Properties of the normalizer (checked under SpecNorm).

\* C3: every record the normalizer returns has a non-empty ref.
C3_RefNonEmpty == (ndone /\ nout.ok) => Truthy(nout.item.ref)

\* the text a city or branch contributes to the slug: nothing when missing
TextOrEmpty(v) == IF v.t = "str" THEN v.s ELSE <<>>

NoIdLike(raw) == \A k \in {"id", "ref", "code", "slug"} : ~Truthy(Get(raw, k))

\* C4: with none of id, ref, code, slug, the ref is "{city}-{branch}" with leading
\* and trailing '-' removed, a missing city or branch contributing the empty string.
C4_SynthesizedRef ==
    (ndone /\ nout.ok /\ NoIdLike(nraw)) =>
        nout.item.ref = PStr(Strip(TextOrEmpty(nout.item.city) \o <<"-">>
                                   \o TextOrEmpty(nout.item.branch), {"-"}))

\* a decimal string with a comma as decimal separator: an optional sign, digits,
\* at most one comma
IsCommaDecimal(s) ==
    LET b == IF s # <<>> /\ Head(s) = "-" THEN Tail(s) ELSE s
    IN  /\ \A i \in 1..Len(b) : b[i] \in Digits \cup {","}
        /\ Cardinality({i \in 1..Len(b) : b[i] = ","}) <= 1
        /\ \E i \in 1..Len(b) : b[i] \in Digits

RECURSIVE NatOf(_)
\* the natural number a digit string denotes
NatOf(ds) == IF ds = <<>> THEN 0 ELSE 10 * NatOf(SubSeq(ds, 1, Len(ds) - 1)) + DigitVal(ds[Len(ds)])

\* the number a comma-decimal string denotes, as [num, den]
Denoted(s) ==
    LET neg == s # <<>> /\ Head(s) = "-"
        b == IF neg THEN Tail(s) ELSE s
        c == IF \E i \in 1..Len(b) : b[i] = ","
             THEN CHOOSE i \in 1..Len(b) : b[i] = "," ELSE Len(b) + 1
        ip == SubSeq(b, 1, c - 1)
        fp == SubSeq(b, c + 1, Len(b))
        n == NatOf(ip) * Pow10(Len(fp)) + NatOf(fp)
    IN  [num |-> IF neg THEN 0 - n ELSE n, den |-> Pow10(Len(fp))]

\* the float v is the number [num, den]
FloatIs(v, q) ==
    /\ v.t = "float"
    /\ (IF v.s = <<"-">> THEN 0 - v.m ELSE v.m) * q.den = q.num * Pow10(v.e)

\* the value the raw record gives under the first of the keys it has
Given(raw, k1, k2) == IF HasKey(raw, k1) THEN Get(raw, k1) ELSE Get(raw, k2)

CommaCoords(raw) ==
    /\ Given(raw, "lat", "latitude").t = "str"
    /\ IsCommaDecimal(Given(raw, "lat", "latitude").s)
    /\ Given(raw, "lng", "longitude").t = "str"
    /\ IsCommaDecimal(Given(raw, "lng", "longitude").s)

\* C8: latitude under lat or latitude and longitude under lng or longitude, both
\* comma-decimal strings: the item's lat and lon are the numbers they denote.
C8_CommaDecimalCoords ==
    (ndone /\ nout.ok /\ CommaCoords(nraw)) =>
        /\ FloatIs(nout.item.lat, Denoted(Given(nraw, "lat", "latitude").s))
        /\ FloatIs(nout.item.lon, Denoted(Given(nraw, "lng", "longitude").s))

C8_Witness ==
    /\ ndone
    /\ nout.ok
    /\ CommaCoords(nraw)
    /\ HasKey(nraw, "latitude")
    /\ HasKey(nraw, "longitude")
    /\ Get(nraw, "latitude").s = <<"-", "1", ",", "1">>
    /\ nout.item.lat = PFloat(TRUE, 11, 1)
    /\ nout.item.lon = PFloat(FALSE, 5, 1)

\* C10: the coordinate step overwrites both lat and lon with the parsed numbers
\* or leaves both as the dictionary parser set them.
C10_CoordsAllOrNothing ==
    (ndone /\ nout.ok) =>
        LET lat == CommaToDot(RawLat(nraw))
            lon == CommaToDot(RawLon(nraw))
        IN  \/ /\ ToFloat(lat).ok
               /\ ToFloat(lon).ok
               /\ nout.item.lat = ToFloat(lat).v
               /\ nout.item.lon = ToFloat(lon).v
            \/ /\ nout.item.lat = DictParserParse(nraw).lat
               /\ nout.item.lon = DictParserParse(nraw).lon

----------------------------------------------------------------------------
\* Properties of the walker (checked under SpecWalk).

Templates == {{"name", "lat", "lng"}, {"nom", "latitude", "longitude"},
              {"title", "coordinates"}, {"adresse", "ville"}}

\* a non-empty array whose first element is a mapping whose lower-cased key set
\* contains a template
IsLocationArray(node) ==
    /\ node.t = "list"
    /\ Len(node.kids) > 0
    /\ node.kids[1].t = "dict"
    /\ \E T \in Templates :
          \A k \in T : \E i \in 1..Len(node.kids[1].keys) : Lower(node.kids[1].keys[i]) = k

RECURSIVE PathsOf(_)
\* the positions of the nodes of a blob, each the child indices leading to it
PathsOf(node) ==
    {<<>>} \cup UNION {{<<i>> \o q : q \in PathsOf(node.kids[i])} : i \in 1..Len(node.kids)}

RECURSIVE NodeAt(_, _)
NodeAt(node, q) == IF q = <<>> THEN node ELSE NodeAt(node.kids[Head(q)], Tail(q))

\* q comes before r in depth-first pre-order
RECURSIVE Before(_, _)
Before(q, r) == IF q = <<>> THEN r # <<>>
                ELSE IF r = <<>> THEN FALSE
                ELSE IF Head(q) # Head(r) THEN Head(q) < Head(r)
                ELSE Before(Tail(q), Tail(r))

RECURSIVE PreOrder(_)
PreOrder(S) == IF S = {} THEN <<>>
               ELSE LET first == CHOOSE q \in S : \A r \in S \ {q} : Before(q, r)
                    IN  <<first>> \o PreOrder(S \ {first})

RECURSIVE Gather(_, _)
\* the elements of the location arrays at the positions qs, in that order
Gather(blob, qs) ==
    IF qs = <<>> THEN <<>>
    ELSE (IF IsLocationArray(NodeAt(blob, Head(qs))) THEN NodeAt(blob, Head(qs)).kids ELSE <<>>)
         \o Gather(blob, Tail(qs))

\* C9: the walker returns the elements of every location array at any depth, in
\* depth-first pre-order, and nothing else.
C9_WalkerCollects == wdone => wfound = Gather(wblob, PreOrder(PathsOf(wblob)))

C9_Witness ==
    /\ wdone
    /\ wblob.t = "list"
    /\ IsLocationArray(wblob)
    /\ \E i \in 1..Len(wblob.kids) :
          \E j \in 1..Len(wblob.kids[i].kids) : IsLocationArray(wblob.kids[i].kids[j])
    /\ Len(wfound) > Len(wblob.kids)

----------------------------------------------------------------------------
\* Properties of the crawl (checked under Spec).

\* an earlier record handled in this pass has the same ref as record j
EarlierSameRef(j) == \E i \in 1..(j - 1) : processed[i].item.ref = processed[j].item.ref

\* C1: within one parse_locator pass no two emitted records share a non-empty
\* ref: the first record with a ref is emitted, every later one is dropped.
C1_DedupByRef ==
    /\ \A j \in 1..Len(processed) :
          Truthy(processed[j].item.ref) =>
              (processed[j].out = "emitted" <=> ~EarlierSameRef(j))
    /\ \A p, q \in 1..Len(emitted) :
          (p < q /\ emitted[p].src = "locator" /\ emitted[q].src = "locator"
                 /\ Truthy(emitted[p].item.ref))
              => emitted[p].item.ref # emitted[q].item.ref

C1_Witness ==
    /\ phase = "done"
    /\ \E i, j \in 1..Len(processed) :
          /\ i < j
          /\ Truthy(processed[i].item.ref)
          /\ processed[i].item.ref = processed[j].item.ref
          /\ processed[i].item.lat # processed[j].item.lat
          /\ processed[i].out = "emitted"
          /\ processed[j].out = "dropped"

\* the (lat, lon, name) of a normalized record; its name is the cleaned one
Triple(item) == <<ItemGet(item.lat), ItemGet(item.lon),
                  IF Truthy(ItemGet(item.name)) THEN item.name ELSE ItemGet(item.branch)>>

\* an earlier record without ref has the (lat, lon, name) of record j
EarlierSameTriple(j) ==
    \E i \in 1..(j - 1) : /\ ~Truthy(processed[i].item.ref)
                          /\ Triple(processed[i].item) = Triple(processed[j].item)

DifferOnlyIn(i, j, c) ==
    /\ i < j
    /\ ~Truthy(processed[i].item.ref)
    /\ ~Truthy(processed[j].item.ref)
    /\ \A k \in 1..3 : (Triple(processed[i].item)[k] # Triple(processed[j].item)[k]) <=> k = c

IsJson(text) == JsonLoads(JsonSanitize(text)).ok

\* script block s without its captures that are no JSON
ValidOnly(s) == [s EXCEPT !.ssr = SelectSeq(s.ssr, IsJson), !.heur = SelectSeq(s.heur, IsJson)]

RECURSIVE Collected(_, _)
\* what the first n script blocks hold once the captures that are no JSON are
\* taken out of them
Collected(blocks, n) ==
    IF n = 0 THEN <<>>
    ELSE ScanBlock(ValidOnly(blocks[n]),
                   [raised |-> FALSE, locs |-> Collected(blocks, n - 1)]).locs

\* record k of the list has been emitted, or an earlier record with its key has
EmittedUpTo(recs, k) ==
    \E p \in 1..Len(emitted) :
        /\ emitted[p].src = "locator"
        /\ emitted[p].at <= k
        /\ DedupKey(emitted[p].item) = DedupKey(DictToItem(recs[k]).item)

\* C5: a capture that is no JSON raises nothing and is skipped; the later
\* matches and script blocks are scanned, their records collected and emitted.
C5_MalformedSkipped ==
    /\ phase = "scan" => locations = Collected(scripts, si - 1)
    /\ phase \in {"emit", "done", "raised"} =>
          /\ si = Len(scripts) + 1
          /\ locations = Collected(scripts, Len(scripts))
    /\ phase = "done" => \A k \in 1..Len(locations) : EmittedUpTo(locations, k)

HasBad(texts) == \E i \in 1..Len(texts) : ~IsJson(texts[i])

C5_Witness ==
    /\ phase = "done"
    /\ Len(scripts) >= 2
    /\ HasBad(scripts[1].ssr)
    /\ HasBad(scripts[1].heur)
    /\ \E n \in 2..Len(scripts) :
          /\ Len(scripts[n].ssr) >= 2
          /\ ~IsJson(scripts[n].ssr[1])
          /\ IsJson(scripts[n].ssr[2])
          /\ Collected(scripts, n - 1) = <<>>
          /\ Collected(scripts, n) # <<>>
    /\ emitted # <<>>

\* C6: no error escapes the processing of a response.
C6_NoErrorEscapes == raised = {}

\* C7: each distinct ref is emitted at most once per crawl, whichever response
\* it comes from.
C7_CrawlWideDedup ==
    \A p, q \in 1..Len(emitted) :
        (p < q /\ Truthy(emitted[p].item.ref)) => emitted[p].item.ref # emitted[q].item.ref

====
